---- MODULE Spec2Model ----
(***************************************************************************)
(* Model of the ingestion and search programs of the repository:           *)
(*   ingest_s3vectors.py     lambda_handler / get_embedding                *)
(*   search_s3vectors.py     lambda_handler / get_embedding                *)
(*   ingest_from_file.py     get_embedding / put_vector                    *)
(*   scripts/search_despicable_me.py  search_vectors / search_by_character *)
(* One behaviour is one run of one entry point (variable prog).  Remote    *)
(* calls and sleeps are recorded, in order, in the sequence log.           *)
(***************************************************************************)
EXTENDS Integers, Sequences, FiniteSets, TLC

\* ------------------------------------------------------------------ bounds
MaxLen == 2        \* longest flat embedding drawn for an endpoint response
MaxAttempts == 3   \* largest value drawn for the attempts parameter
MaxBase == 2       \* largest value drawn for the base delay parameter
MaxStrLen == 2     \* longest string drawn for the request field k
MaxResults == 2    \* longest record list the store returns
MaxDistance == 2   \* largest distance the store returns
MaxDocs == 2       \* longest document list given to ingest_docs

\* --------------------------------------------------- program constants
EmbedAttempts == 3
EmbedDelay == 1
PutAttempts == 3
PutDelay == 1
DefaultK == 5
MaxK == 50
CharacterTopK == 10
FileEmbedAttempts == 3
FileEmbedDelay == 1
FilePutAttempts == 3
FilePutDelay == 1

\* ------------------------------------------------------ decoded JSON values
\* A decoded JSON value: t is its Python type, s the payload of a scalar,
\* items the elements of a list.
Num(x) == [t |-> "num", s |-> x, items |-> <<>>]
None == [t |-> "none", s |-> "", items |-> <<>>]
List(xs) == [t |-> "list", s |-> "", items |-> xs]

IsList(v) == v.t = "list"
PyLen(v) == Len(v.items)
At(v, i) == v.items[i + 1]

Scalars == {Num("e1"), Num("e2")}

SeqsUpTo(S, n) == UNION {[1..m -> S] : m \in 0..n}

\* the flat sequences [e1, e2, ...] of scalars, the empty one included
Flat == {List(xs) : xs \in SeqsUpTo(Scalars, MaxLen)}

Wrap(v) == List(<<v>>)

\* the decoded bodies the endpoint answers with: a non-list, a flat list,
\* a flat list nested one, two or three levels deep, a batch of two rows
Responses ==
    {None, Num("e1")}
    \cup Flat
    \cup {Wrap(e) : e \in Flat}
    \cup {Wrap(Wrap(e)) : e \in Flat}
    \cup {Wrap(Wrap(Wrap(e))) : e \in Flat}
    \cup {List(<<e, List(<<Num("e2")>>)>>) : e \in Flat}

\* get_embedding of the ingest handler: embedding starts as None and the
\* else branch belongs to the outer if
NormalizeIngest(result) ==
    IF IsList(result) /\ PyLen(result) > 0
    THEN IF IsList(At(result, 0)) /\ PyLen(At(result, 0)) > 0
         THEN IF IsList(At(At(result, 0), 0))
              THEN At(At(result, 0), 0)
              ELSE At(result, 0)
         ELSE None
    ELSE result

\* get_embedding of the search handler, the same statements
NormalizeSearch(result) ==
    IF IsList(result) /\ PyLen(result) > 0
    THEN IF IsList(At(result, 0)) /\ PyLen(At(result, 0)) > 0
         THEN IF IsList(At(At(result, 0), 0))
              THEN At(At(result, 0), 0)
              ELSE At(result, 0)
         ELSE None
    ELSE result

\* get_embedding of the batch ingester: every path that does not unwrap
\* returns result
NormalizeFile(result) ==
    IF IsList(result) /\ PyLen(result) > 0
    THEN IF IsList(At(result, 0)) /\ PyLen(At(result, 0)) > 0
         THEN IF IsList(At(At(result, 0), 0))
              THEN At(At(result, 0), 0)
              ELSE At(result, 0)
         ELSE result
    ELSE result

\* get_embedding of scripts/search_despicable_me.py
NormalizeScript(result) ==
    IF IsList(result) /\ PyLen(result) > 0
    THEN IF IsList(At(result, 0)) /\ PyLen(At(result, 0)) > 0
         THEN IF IsList(At(At(result, 0), 0))
              THEN At(At(result, 0), 0)
              ELSE At(result, 0)
         ELSE result
    ELSE result

\* get_embedding of scripts/test_despicable_me_docs.py
NormalizeDocs(result) ==
    IF IsList(result) /\ PyLen(result) > 0
    THEN IF IsList(At(result, 0)) /\ PyLen(At(result, 0)) > 0
         THEN IF IsList(At(At(result, 0), 0))
              THEN At(At(result, 0), 0)
              ELSE At(result, 0)
         ELSE result
    ELSE result

\* a validation that accepts every list
ValidEmbeddingAnyList(e) == IsList(e)

\* isinstance(embedding, list) and len(embedding) != 0
ValidEmbedding(e) == IsList(e) /\ PyLen(e) # 0

\* ------------------------------------------------------------ request inputs
\* Python strings are sequences of one-character strings.
TextStr == <<"d", "o", "c">>
CallerStr == <<"u">>
Stamp(t) == <<ToString(t)>>

\* the value of body['text'] / body['query']: missing, null, "", a non-empty
\* string, a non-zero number
Texts == {"absent", "none", "empty", "doc", "num"}
\* a check for a missing field only
TruthyPresent(text) == text \notin {"absent", "none"}
\* not text
Truthy(text) == text \in {"doc", "num"}
\* text[:100] is defined
Sliceable(text) == text = "doc"

\* the value of body['metadata']: missing, a mapping, anything else
MetaKeys == {"source", "timestamp", "text"}
Maps == UNION {[K -> {CallerStr}] : K \in SUBSET MetaKeys}
EmptyMap == [x \in {} |-> CallerStr]
NoMetadata == [t |-> "absent", m |-> EmptyMap]
Metadatas == {NoMetadata, [t |-> "notmap", m |-> EmptyMap]}
             \cup {[t |-> "map", m |-> m] : m \in Maps}
\* body.get('metadata', {})
BodyMetadata(md) == IF md.t = "absent" THEN [t |-> "map", m |-> EmptyMap] ELSE md

\* an update in place, metadata['timestamp'] = ..., of the object the caller
\* handed over
UpdatedInPlace(obj, built) == IF obj.t = "map" THEN [obj EXCEPT !.m = built] ELSE obj
\* {**metadata, ...}: the dict display copies the entries of metadata into a
\* new dict; the object metadata names stays as it was
Unpacked(obj, built) == obj

\* {**a, **b}: the later entry wins
Merge(a, b) ==
    [x \in (DOMAIN a) \cup (DOMAIN b) |-> IF x \in DOMAIN b THEN b[x] ELSE a[x]]

\* the value of body['k']
KChars == {"-", "0", "7", "x"}
KAbsent == [t |-> "absent", n |-> 0, s |-> <<>>]
KInt(n) == [t |-> "int", n |-> n, s |-> <<>>]
KStr(s) == [t |-> "str", n |-> 0, s |-> s]
\* a float, n in tenths
KFloat(n) == [t |-> "float", n |-> n, s |-> <<>>]
KValues ==
    {KAbsent}
    \cup {KInt(n) : n \in {-1, 0, 1, 5, MaxK, MaxK + 1}}
    \cup {KStr(s) : s \in SeqsUpTo(KChars, MaxStrLen)}
    \cup {KFloat(n) : n \in {-5, 5, 37, 10 * MaxK + 9, 10 * MaxK + 15}}
    \cup {[t |-> x, n |-> 0, s |-> <<>>] : x \in {"nan", "inf", "none", "list"}}
\* body.get('k', 5)
BodyK(kv) == IF kv.t = "absent" THEN KInt(DefaultK) ELSE kv

Digits == {"0", "7"}
DigitVal(c) == IF c = "7" THEN 7 ELSE 0
IsDigits(s) == Len(s) >= 1 /\ \A i \in 1..Len(s) : s[i] \in Digits
RECURSIVE DecVal(_)
DecVal(s) == IF s = <<>> THEN 0
             ELSE 10 * DecVal(SubSeq(s, 1, Len(s) - 1)) + DigitVal(s[Len(s)])
\* int(k): ok is FALSE when int() raises
IntOf(kv) ==
    CASE kv.t = "int" -> [ok |-> TRUE, v |-> kv.n]
      [] kv.t = "float" ->
            [ok |-> TRUE, v |-> IF kv.n >= 0 THEN kv.n \div 10 ELSE -((-kv.n) \div 10)]
      [] kv.t = "str" ->
            IF kv.s # <<>> /\ Head(kv.s) = "-"
            THEN IF IsDigits(Tail(kv.s))
                 THEN [ok |-> TRUE, v |-> -DecVal(Tail(kv.s))]
                 ELSE [ok |-> FALSE, v |-> 0]
            ELSE IF IsDigits(kv.s)
                 THEN [ok |-> TRUE, v |-> DecVal(kv.s)]
                 ELSE [ok |-> FALSE, v |-> 0]
      [] OTHER -> [ok |-> FALSE, v |-> 0]

\* a validation without the upper clamp
ClampKNoCap(kv) ==
    LET r == IntOf(kv)
        k1 == IF r.ok THEN r.v ELSE DefaultK
    IN IF k1 <= 0 THEN DefaultK ELSE k1
\* a validation that clamps at both ends
ClampKFloor(kv) ==
    LET r == IntOf(kv)
        k1 == IF r.ok THEN r.v ELSE DefaultK
        k2 == IF k1 <= 0 THEN 1 ELSE k1
    IN IF k2 > MaxK THEN MaxK ELSE k2
\* the validation of k in the search handler
ClampK(kv) ==
    LET r == IntOf(kv)
        k1 == IF r.ok THEN r.v ELSE DefaultK
        k2 == IF k1 <= 0 THEN DefaultK ELSE k1
    IN IF k2 > MaxK THEN MaxK ELSE k2

\* os.environ at import time: each variable is unset, set to "" or set to a
\* name
EnvNames == {"SAGEMAKER_ENDPOINT", "VECTOR_BUCKET", "INDEX_NAME"}
EnvValues == {"unset", "empty", "set"}
\* os.environ.get(name) and os.environ.get(name, default)
EnvGet(env, name) == IF env[name] = "unset" THEN "none" ELSE env[name]
EnvGetDefault(env, name) == IF env[name] = "unset" THEN "default" ELSE env[name]
\* not X, for None and for a string
NotSet(v) == v \in {"none", "empty"}
VECTOR_BUCKET(env) == EnvGetDefault(env, "VECTOR_BUCKET")
SAGEMAKER_ENDPOINT(env) == EnvGet(env, "SAGEMAKER_ENDPOINT")
INDEX_NAME(env) == EnvGetDefault(env, "INDEX_NAME")

\* the event handed to a request handler.  kind: the event is not a mapping /
\* has no body / body is a string that is not JSON / body is a JSON string /
\* body is an already decoded value; isMap: the decoded body is a mapping.
BaseArgs ==
    [kind |-> "call", isMap |-> TRUE, text |-> "doc", metadata |-> NoMetadata,
     k |-> KAbsent, attempts |-> 0, delay |-> 0, name |-> <<>>, topk |-> 0,
     docs |-> <<>>,
     env |-> [SAGEMAKER_ENDPOINT |-> "set", VECTOR_BUCKET |-> "set",
              INDEX_NAME |-> "set"]]
Event(kind, isMap, text, md, kv) ==
    [BaseArgs EXCEPT !.kind = kind, !.isMap = isMap, !.text = text,
                     !.metadata = md, !.k = kv]
BareEvents ==
    {Event(kind, TRUE, "absent", NoMetadata, KAbsent) :
        kind \in {"not_mapping", "absent", "str_invalid"}}
    \cup {Event(kind, FALSE, "absent", NoMetadata, KAbsent) : kind \in {"str", "direct"}}
IngestEvents ==
    BareEvents
    \cup {Event(kind, TRUE, text, NoMetadata, KAbsent) :
            kind \in {"str", "direct"}, text \in Texts}
    \cup {Event("direct", TRUE, "doc", md, KAbsent) : md \in Metadatas}
SearchEvents ==
    BareEvents
    \cup {Event(kind, TRUE, text, NoMetadata, KAbsent) :
            kind \in {"str", "direct"}, text \in Texts}
    \cup {Event("direct", TRUE, "doc", NoMetadata, kv) : kv \in KValues}
    \cup {Event("direct", TRUE, text, NoMetadata, kv) :
            text \in {"absent", "empty"}, kv \in KValues}
\* the arguments of a direct call of get_embedding / put_vector
CallArgs ==
    {[BaseArgs EXCEPT !.attempts = a, !.delay = d] :
        a \in (-1)..MaxAttempts, d \in 1..MaxBase}
\* the arguments of search_vectors(query_text, k) and
\* search_by_character(character_name, k)
ScriptArgs ==
    {[BaseArgs EXCEPT !.name = nm, !.topk = n] :
        nm \in {<<"G">>, <<"g", "u">>, <<"u", "u">>}, n \in 0..(MaxResults + 1)}

\* the arguments of ingest_document(text, metadata=None)
DocumentArgs ==
    {[BaseArgs EXCEPT !.metadata = md] :
        md \in {NoMetadata, [t |-> "map", m |-> EmptyMap],
                [t |-> "map", m |-> [x \in {"source"} |-> CallerStr]]}}

\* the documents of the file given to ingest_docs: text and metadata
Doc(text, md) == [text |-> text, metadata |-> md]
DocSet ==
    {Doc("doc", NoMetadata),
     Doc("doc", [t |-> "map", m |-> [x \in {"timestamp"} |-> CallerStr]]),
     Doc("absent", [t |-> "map", m |-> [x \in {"source"} |-> CallerStr]])}
DocsArgs == {[BaseArgs EXCEPT !.docs = ds] : ds \in SeqsUpTo(DocSet, MaxDocs)}
\* the endpoint answers and store outcomes drawn while a batch is ingested
EnvArgs == {[BaseArgs EXCEPT !.env = e] : e \in [EnvNames -> EnvValues]}
DocResponses == {None, List(<<>>), Wrap(Wrap(List(<<Num("e1")>>)))}
DocStoreOutcomes == {"ok", "NotFoundException", "ThrottlingException", "Exception"}

\* the body cannot be read as a mapping: event.get, json.loads or body.get raises
ParseRaises(ev) ==
    \/ ev.kind \in {"not_mapping", "str_invalid"}
    \/ ev.kind \in {"str", "direct"} /\ ~ev.isMap

\* ------------------------------------------------------- remote call outcomes
ClientErrorCodes ==
    {"NotFoundException", "AccessDeniedException", "AccessDenied", "ThrottlingException"}
\* an except clause that catches every fault
IsAnyFault(out) == out # "ok"
\* except ClientError as e
IsClientError(out) == out \in ClientErrorCodes
\* "Exception": a fault that is not a ClientError
InvokeOutcomes == {"ok", "ThrottlingException", "Exception"}
StoreOutcomes == {"ok", "Exception"} \cup ClientErrorCodes
\* a check that forgets the second spelling of the code
AccessDeniedCodesShort == {"AccessDeniedException"}
\* code in ('AccessDeniedException', 'AccessDenied')
AccessDeniedCodes == {"AccessDeniedException", "AccessDenied"}

\* the records the store returns for a query
Record(key, d, md) == [key |-> key, distance |-> d, metadata |-> md]
StoreRecords ==
    {Record(ToString(d), d, EmptyMap) : d \in 0..MaxDistance}
    \cup {Record("v2", 1, [x \in {"text"} |-> TextStr]),
          Record("v3", 0, [x \in {"character"} |-> <<"G", "u">>]),
          Record("v4", 2, [x \in {"character"} |-> <<"g">>])}
QueryResponses ==
    {r \in SeqsUpTo(StoreRecords, MaxResults) :
        \A i, j \in 1..Len(r) : r[i] = r[j] => i = j}

\* the store answers a query for topK records with at most topK of them
QueryResponsesFor(topK) == {r \in QueryResponses : topK >= 1 /\ Len(r) <= topK}

\* ---------------------------------------------------------------- the state
VARIABLES
    prog,         \* the entry point this run executes
    args,         \* its event / arguments
    pc,           \* the statement the run is at
    attempts,     \* attempts of the retry loop being executed
    attempt,      \* loop variable attempt
    delay,        \* loop variable delay
    result,       \* the decoded endpoint response get_embedding normalised
    embedding,    \* the value get_embedding returned
    k,            \* k of the search handler after validation
    vector_id,    \* the generated key
    log,          \* the remote calls and sleeps made, in order
    puts,         \* the vectors argument of every put_vectors call, in order
    now,          \* the clock
    outcome,      \* running / response / returned / raised / printed
    status,       \* statusCode of a response
    document_id,  \* document_id of a 200 ingest response
    results,      \* results of a 200 search response
    vectors,      \* the records the store returned for the query
    shown,        \* the similarities a search script printed
    count,        \* count of a 200 search response
    metadata,     \* the local metadata of ingest_docs / put_vector
    doc_index,    \* ingest_docs: i, the index of the document being processed
    successes,    \* ingest_docs: counter successes
    failures,     \* ingest_docs: counter failures
    history,      \* ingest_docs: what happened to each processed document
    caller        \* the metadata objects the caller holds, as they are now

vars == <<prog, args, pc, attempts, attempt, delay, result, embedding, k,
          vector_id, log, puts, now, outcome, status, document_id, results,
          vectors, shown, count, metadata, doc_index, successes, failures,
          history, caller>>

Handlers == {"ingest_handler", "search_handler"}
FileCalls == {"file_get_embedding", "file_put_vector"}
Scripts == {"search_vectors", "search_by_character"}
Modules == {"ingest_module", "search_module"}
Progs == Handlers \cup FileCalls \cup Scripts \cup {"ingest_docs"} \cup Modules
         \cup {"ingest_document"}

Unset == [t |-> "unset", s |-> "", items |-> <<>>]
Uuid4 == "uuid-1"

ArgsOf(p) ==
    CASE p = "ingest_handler" -> IngestEvents
      [] p = "search_handler" -> SearchEvents
      [] p \in FileCalls -> CallArgs
      [] p = "ingest_docs" -> DocsArgs
      [] p \in Modules -> EnvArgs
      [] p = "ingest_document" -> DocumentArgs
      [] OTHER -> ScriptArgs

Init ==
    /\ prog \in Progs
    /\ args \in ArgsOf(prog)
    /\ pc = CASE prog \in Handlers -> "start"
              [] prog = "file_get_embedding" -> "get_embedding"
              [] prog = "file_put_vector" -> "put_vectors"
              [] prog = "ingest_docs" -> "doc_start"
              [] prog \in Modules -> "load"
              [] prog = "ingest_document" -> "document_embedding"
              [] OTHER -> "script_embedding"
    /\ attempts = args.attempts
    /\ attempt = 0
    /\ delay = args.delay
    /\ result = Unset
    /\ embedding = IF prog = "file_put_vector" THEN List(<<Num("e1")>>) ELSE Unset
    /\ k = args.topk
    /\ vector_id = IF prog = "file_put_vector" THEN Uuid4 ELSE ""
    /\ log = <<>>
    /\ puts = <<>>
    /\ now = 0
    /\ outcome = "running"
    /\ status = 0
    /\ document_id = ""
    /\ results = <<>>
    /\ vectors = <<>>
    /\ shown = <<>>
    /\ count = 0
    /\ metadata = EmptyMap
    /\ doc_index = 1
    /\ successes = 0
    /\ failures = 0
    /\ history = <<>>
    /\ caller = CASE prog = "ingest_handler" -> <<args.metadata>>
                  [] prog = "ingest_docs" ->
                       [n \in 1..Len(args.docs) |-> args.docs[n].metadata]
                  [] OTHER -> <<>>

\* ------------------------------------------------------------ log entries
Call(op, out, n) == [op |-> op, out |-> out, n |-> n]
Sleep(d) == Call("sleep", "ok", d)

\* ------------------------------------------------- how an entry point ends
Loop == <<attempts, attempt, delay>>
Batch == <<doc_index, successes, failures, history>>
Rest == <<count, metadata, doc_index, successes, failures, history, caller>>
\* a response whose statusCode is 200 whatever happened
RespondOk(code) ==
    pc' = "done" /\ outcome' = "response" /\ status' = 200 /\ UNCHANGED Loop
\* return {'statusCode': code, ...}
Respond(code) ==
    pc' = "done" /\ outcome' = "response" /\ status' = code /\ UNCHANGED Loop
\* an exception leaves the entry point
Raise == pc' = "done" /\ outcome' = "raised" /\ status' = 0 /\ UNCHANGED Loop
\* the function returns
Return == pc' = "done" /\ outcome' = "returned" /\ status' = 0 /\ UNCHANGED Loop
\* a script catches the exception and prints it
Printed == pc' = "done" /\ outcome' = "printed" /\ status' = 0 /\ UNCHANGED Loop
\* control moves on
Goto(l) == pc' = l /\ UNCHANGED <<outcome, status>> /\ UNCHANGED Loop
\* attempts = a; delay = d; for attempt in range(attempts):
EnterLoop(l, a, d) ==
    /\ pc' = l /\ attempts' = a /\ attempt' = 0 /\ delay' = d
    /\ UNCHANGED <<outcome, status>>
\* a loop that gives up one attempt early
ShouldRetryEarly(att, atts) == att < atts - 2
\* a loop that sleeps and continues after its last attempt as well
ShouldRetryAlways(att, atts) == att < atts
\* if attempt < attempts - 1:
ShouldRetry(att, atts) == att < atts - 1
\* a delay that grows by one instead of doubling
NextDelayLinear(d) == d + 1
\* delay *= 2
NextDelay(d) == d * 2
\* time.sleep(delay); delay *= 2; continue
Retry ==
    /\ attempt' = attempt + 1 /\ delay' = NextDelay(delay)
    /\ UNCHANGED <<pc, attempts, outcome, status>>
\* what one remote call adds to the log, with the sleep that follows it
Logged(op, out, n, retry) ==
    /\ log' = log \o (IF retry THEN <<Call(op, out, n), Sleep(delay)>>
                               ELSE <<Call(op, out, n)>>)
    /\ now' = IF retry THEN now + delay ELSE now

\* ------------------------------------------------- ingest_s3vectors.py
\* lambda_handler up to the call of get_embedding
IngestParse ==
    /\ prog = "ingest_handler" /\ pc = "start"
    /\ IF ParseRaises(args) THEN Respond(500)
       ELSE IF ~Truthy(args.text) THEN Respond(400)
       ELSE IF ~Sliceable(args.text) THEN Respond(500)
       ELSE EnterLoop("get_embedding", EmbedAttempts, EmbedDelay)
    /\ UNCHANGED Rest
    /\ UNCHANGED <<prog, args, result, embedding, k, vector_id, log, puts, now,
                   document_id, results, vectors, shown>>

\* one iteration of the loop of get_embedding
IngestGetEmbedding ==
    /\ prog = "ingest_handler" /\ pc = "get_embedding" /\ attempt < attempts
    /\ \E out \in InvokeOutcomes :
         LET retry == IsClientError(out) /\ ShouldRetry(attempt, attempts)
         IN /\ Logged("invoke_endpoint", out, 0, retry)
            /\ IF out = "ok"
               THEN \E r \in Responses :
                      /\ result' = r
                      /\ embedding' = NormalizeIngest(r)
                      /\ Goto("validate")
               ELSE /\ UNCHANGED <<result, embedding>>
                    /\ IF retry THEN Retry ELSE Respond(500)
    /\ UNCHANGED Rest
    /\ UNCHANGED <<prog, args, k, vector_id, puts, document_id, results, vectors, shown>>

\* lambda_handler from the validation of the embedding to the put loop
IngestValidate ==
    /\ prog = "ingest_handler" /\ pc = "validate"
    /\ result' = Unset
    /\ IF ~ValidEmbedding(embedding)
       THEN Respond(500) /\ UNCHANGED vector_id
       ELSE vector_id' = Uuid4 /\ EnterLoop("put_vectors", PutAttempts, PutDelay)
    /\ UNCHANGED Rest
    /\ UNCHANGED <<prog, args, embedding, k, log, puts, now, document_id,
                   results, vectors, shown>>

\* a put loop that calls uuid4 inside the loop, once per attempt
IngestPutVectorsRekeyed ==
    /\ prog = "ingest_handler" /\ pc = "put_vectors" /\ attempt < attempts
    /\ LET md == BodyMetadata(args.metadata)
           fresh == "uuid-" \o ToString(attempt + 1)
       IN IF md.t # "map"
          THEN Respond(500) /\ UNCHANGED <<log, puts, now, document_id, vector_id>>
          ELSE \E out \in StoreOutcomes :
                 LET retry == /\ IsClientError(out)
                              /\ out # "NotFoundException"
                              /\ out \notin AccessDeniedCodes
                              /\ ShouldRetry(attempt, attempts)
                     sent == [key |-> fresh, data |-> embedding,
                              metadata |-> Merge([text |-> TextStr,
                                                  timestamp |-> Stamp(now)], md.m)]
                 IN /\ Logged("put_vectors", out, 0, retry)
                    /\ puts' = Append(puts, sent)
                    /\ vector_id' = fresh
                    /\ document_id' = IF out = "ok" THEN fresh ELSE document_id
                    /\ CASE out = "ok" -> Respond(200)
                         [] out = "NotFoundException" -> Respond(404)
                         [] out \in AccessDeniedCodes -> Respond(403)
                         [] OTHER -> IF retry THEN Retry ELSE Respond(500)
    /\ UNCHANGED Rest
    /\ UNCHANGED <<prog, args, result, embedding, k, results, vectors, shown>>

\* one iteration of the put loop of lambda_handler, and the return after it
IngestPutVectors ==
    /\ prog = "ingest_handler" /\ pc = "put_vectors" /\ attempt < attempts
    /\ LET md == BodyMetadata(caller[1])
       IN IF md.t # "map"
          THEN Respond(500) /\ UNCHANGED <<log, puts, now, document_id, caller>>
          ELSE \E out \in StoreOutcomes :
                 LET retry == /\ IsClientError(out)
                              /\ out # "NotFoundException"
                              /\ out \notin AccessDeniedCodes
                              /\ ShouldRetry(attempt, attempts)
                     sent == [key |-> vector_id, data |-> embedding,
                              metadata |-> Merge([text |-> TextStr,
                                                  timestamp |-> Stamp(now)], md.m)]
                 IN /\ Logged("put_vectors", out, 0, retry)
                    /\ puts' = Append(puts, sent)
                    /\ caller' = [caller EXCEPT ![1] = Unpacked(@, sent.metadata)]
                    /\ document_id' = IF out = "ok" THEN vector_id ELSE document_id
                    /\ CASE out = "ok" -> Respond(200)
                         [] out = "NotFoundException" -> Respond(404)
                         [] out \in AccessDeniedCodes -> Respond(403)
                         [] OTHER -> IF retry THEN Retry ELSE Respond(500)
    /\ UNCHANGED <<count, metadata>> /\ UNCHANGED Batch
    /\ UNCHANGED <<prog, args, result, embedding, k, vector_id, results, vectors, shown>>

\* the import of ingest_s3vectors.py / search_s3vectors.py: the three
\* identifiers are read and checked; the module is loaded when nothing raises
ModuleLoad ==
    /\ prog \in Modules /\ pc = "load"
    /\ IF \/ NotSet(SAGEMAKER_ENDPOINT(args.env))
          \/ NotSet(VECTOR_BUCKET(args.env))
          \/ NotSet(INDEX_NAME(args.env))
       THEN Raise
       ELSE Return
    /\ UNCHANGED Rest
    /\ UNCHANGED <<prog, args, result, embedding, k, vector_id, log, puts, now,
                   document_id, results, vectors, shown>>

\* ------------------------------------------------- ingest_from_file.py
\* str(uuid.uuid4()) of the n-th document
DocUuid(n) == "uuid-" \o ToString(n)

\* what happened to one document, read off the calls made for it
Summarize(n, calls, emb, verdict) ==
    LET inv == SelectSeq(calls, LAMBDA e : e.op = "invoke_endpoint")
        put == SelectSeq(calls, LAMBDA e : e.op = "put_vectors")
    IN [doc |-> n,
        embed |-> IF inv # <<>> /\ inv[Len(inv)].out = "ok"
                  THEN IF ValidEmbedding(emb) THEN "valid" ELSE "invalid"
                  ELSE "raised",
        puts |-> Len(put),
        lastPut |-> IF put = <<>> THEN "none" ELSE put[Len(put)].out,
        verdict |-> verdict]

\* a loop body whose except clause does not count the document
EndDocUncounted(calls, emb, verdict) ==
    /\ history' = Append(history, Summarize(doc_index, calls, emb, verdict))
    /\ successes' = IF verdict = "success" THEN successes + 1 ELSE successes
    /\ failures' = IF verdict = "failure" /\ calls[Len(calls)].out = "ok"
                   THEN failures + 1 ELSE failures
    /\ doc_index' = doc_index + 1
    /\ pc' = "doc_start"
    /\ UNCHANGED <<outcome, status>> /\ UNCHANGED Loop

\* ingest_docs: the end of one loop iteration, successes += 1 after put_vector
\* returned, failures += 1 in the except clause or for an invalid embedding
EndDoc(calls, emb, verdict) ==
    /\ history' = Append(history, Summarize(doc_index, calls, emb, verdict))
    /\ successes' = IF verdict = "success" THEN successes + 1 ELSE successes
    /\ failures' = IF verdict = "failure" THEN failures + 1 ELSE failures
    /\ doc_index' = doc_index + 1
    /\ pc' = "doc_start"
    /\ UNCHANGED <<outcome, status>> /\ UNCHANGED Loop

\* ingest_docs: the head of the for loop, up to the call of get_embedding, and
\* the summary after the last document
DocsNext ==
    /\ prog = "ingest_docs" /\ pc = "doc_start"
    /\ IF doc_index > Len(args.docs)
       THEN Return /\ UNCHANGED <<metadata, log, puts>>
       ELSE /\ metadata' = BodyMetadata(caller[doc_index]).m
            /\ log' = <<>>
            /\ puts' = <<>>
            /\ EnterLoop("get_embedding", FileEmbedAttempts, FileEmbedDelay)
    /\ UNCHANGED Batch
    /\ UNCHANGED <<prog, args, result, embedding, k, vector_id, now, document_id,
                   results, vectors, shown, count, caller>>

\* one iteration of the loop of get_embedding(text, attempts, delay)
FileGetEmbedding ==
    /\ prog \in {"file_get_embedding", "ingest_docs"}
    /\ pc = "get_embedding" /\ attempt < attempts
    /\ \E out \in InvokeOutcomes :
         LET retry == IsClientError(out) /\ ShouldRetry(attempt, attempts)
         IN /\ Logged("invoke_endpoint", out, 0, retry)
            /\ IF out = "ok"
               THEN \E r \in (IF prog = "ingest_docs" THEN DocResponses ELSE Responses) :
                      /\ result' = r
                      /\ embedding' = NormalizeFile(r)
                      /\ IF prog = "ingest_docs" THEN Goto("validate") ELSE Return
                      /\ UNCHANGED Batch
               ELSE /\ UNCHANGED <<result, embedding>>
                    /\ IF retry THEN Retry /\ UNCHANGED Batch
                       ELSE IF prog = "ingest_docs"
                            THEN EndDoc(log \o <<Call("invoke_endpoint", out, 0)>>,
                                        embedding, "failure")
                            ELSE Raise /\ UNCHANGED Batch
    /\ UNCHANGED <<prog, args, k, vector_id, puts, document_id, results, vectors,
                   shown, count, metadata, caller>>

\* ingest_docs: the validation of the embedding, the key and the timestamp
DocsValidate ==
    /\ prog = "ingest_docs" /\ pc = "validate"
    /\ result' = Unset
    /\ IF ~ValidEmbedding(embedding)
       THEN EndDoc(log, embedding, "failure")
            /\ UNCHANGED <<vector_id, metadata, caller>>
       ELSE /\ vector_id' = DocUuid(doc_index)
            /\ metadata' = Merge(metadata, [x \in {"timestamp"} |-> Stamp(now)])
            /\ caller' = [caller EXCEPT ![doc_index] = Unpacked(@, metadata')]
            /\ EnterLoop("put_vectors", FilePutAttempts, FilePutDelay)
            /\ UNCHANGED Batch
    /\ UNCHANGED <<prog, args, embedding, k, log, puts, now, document_id, results,
                   vectors, shown, count>>

\* range(attempts) is empty: the function falls off its end and returns None
FileGetEmbeddingExit ==
    /\ prog = "file_get_embedding" /\ pc = "get_embedding" /\ attempt >= attempts
    /\ embedding' = None
    /\ Return
    /\ UNCHANGED Rest
    /\ UNCHANGED <<prog, args, result, k, vector_id, log, puts, now, document_id,
                   results, vectors, shown>>

\* one iteration of the loop of put_vector(vector_id, embedding, metadata,
\* attempts, delay)
FilePutVector ==
    /\ prog \in {"file_put_vector", "ingest_docs"}
    /\ pc = "put_vectors" /\ attempt < attempts
    /\ \E out \in (IF prog = "ingest_docs" THEN DocStoreOutcomes ELSE StoreOutcomes) :
         LET retry == /\ IsClientError(out)
                      /\ out # "NotFoundException"
                      /\ ShouldRetry(attempt, attempts)
             sent == [key |-> vector_id, data |-> embedding, metadata |-> metadata]
             calls == log \o <<Call("put_vectors", out, 0)>>
         IN /\ Logged("put_vectors", out, 0, retry)
            /\ puts' = Append(puts, sent)
            /\ IF prog = "ingest_docs"
               THEN IF out = "ok" THEN EndDoc(calls, embedding, "success")
                    ELSE IF retry THEN Retry /\ UNCHANGED Batch
                    ELSE EndDoc(calls, embedding, "failure")
               ELSE /\ UNCHANGED Batch
                    /\ IF out = "ok" THEN Return
                       ELSE IF retry THEN Retry ELSE Raise
    /\ UNCHANGED <<prog, args, result, embedding, k, vector_id, document_id,
                   results, vectors, shown, count, metadata, caller>>

\* range(attempts) is empty: put_vector returns without a call
FilePutVectorExit ==
    /\ prog = "file_put_vector" /\ pc = "put_vectors" /\ attempt >= attempts
    /\ Return
    /\ UNCHANGED Rest
    /\ UNCHANGED <<prog, args, result, embedding, k, vector_id, log, puts, now,
                   document_id, results, vectors, shown>>

\* ------------------------------------------------- search_s3vectors.py
\* lambda_handler up to the call of get_embedding; nothing catches a fault
SearchParse ==
    /\ prog = "search_handler" /\ pc = "start"
    /\ IF ParseRaises(args) THEN Raise
       ELSE IF ~Truthy(args.text) THEN Respond(400)
       ELSE EnterLoop("get_embedding", EmbedAttempts, EmbedDelay)
    /\ UNCHANGED Rest
    /\ UNCHANGED <<prog, args, result, embedding, k, vector_id, log, puts, now,
                   document_id, results, vectors, shown>>

\* one iteration of the loop of get_embedding
SearchGetEmbedding ==
    /\ prog = "search_handler" /\ pc = "get_embedding" /\ attempt < attempts
    /\ \E out \in InvokeOutcomes :
         LET retry == IsClientError(out) /\ ShouldRetry(attempt, attempts)
         IN /\ Logged("invoke_endpoint", out, 0, retry)
            /\ IF out = "ok"
               THEN \E r \in Responses :
                      /\ result' = r
                      /\ embedding' = NormalizeSearch(r)
                      /\ Goto("validate")
               ELSE /\ UNCHANGED <<result, embedding>>
                    /\ IF retry THEN Retry ELSE Raise
    /\ UNCHANGED Rest
    /\ UNCHANGED <<prog, args, k, vector_id, puts, document_id, results, vectors, shown>>

\* lambda_handler: validation of k, then of the embedding
SearchValidate ==
    /\ prog = "search_handler" /\ pc = "validate"
    /\ result' = Unset
    /\ k' = ClampK(BodyK(args.k))
    /\ IF ~ValidEmbedding(embedding) THEN Respond(500) ELSE Goto("query_vectors")
    /\ UNCHANGED Rest
    /\ UNCHANGED <<prog, args, embedding, vector_id, log, puts, now, document_id,
                   results, vectors, shown>>

\* metadata.get('text', '')
MetaText(md) == IF "text" \in DOMAIN md THEN md["text"] ELSE <<>>

\* one entry of results for a record the store returned
ResultOf(vector) ==
    [id |-> vector.key, score |-> vector.distance,
     text |-> MetaText(vector.metadata), metadata |-> vector.metadata]

\* a formatting that keeps only the records at distance 0
FormatResultsExact(vs) ==
    LET kept == SelectSeq(vs, LAMBDA v : v.distance = 0)
    IN [i \in 1..Len(kept) |-> ResultOf(kept[i])]

\* for vector in response.get('vectors', []): results.append(...)
FormatResults(vs) == [i \in 1..Len(vs) |-> ResultOf(vs[i])]

\* lambda_handler: the query, its fault handling and the formatting of results
SearchQueryVectors ==
    /\ prog = "search_handler" /\ pc = "query_vectors"
    /\ \E out \in StoreOutcomes :
         /\ Logged("query_vectors", out, k, FALSE)
         /\ CASE out = "ok" ->
                   \E r \in QueryResponsesFor(k) :
                      /\ vectors' = r
                      /\ results' = FormatResults(r)
                      /\ count' = Len(results')
                      /\ Respond(200)
              [] out = "NotFoundException" ->
                   Respond(404) /\ UNCHANGED <<results, vectors, count>>
              [] out \in AccessDeniedCodes ->
                   Respond(403) /\ UNCHANGED <<results, vectors, count>>
              [] OTHER -> Raise /\ UNCHANGED <<results, vectors, count>>
    /\ UNCHANGED <<metadata, caller>> /\ UNCHANGED Batch
    /\ UNCHANGED <<prog, args, result, embedding, k, vector_id, puts, document_id,
                   shown>>

\* ------------------------------------- scripts/search_despicable_me.py
\* get_embedding: one call, no retry; the caller's except prints any fault
ScriptGetEmbedding ==
    /\ prog \in Scripts /\ pc = "script_embedding"
    /\ \E out \in InvokeOutcomes :
         /\ Logged("invoke_endpoint", out, 0, FALSE)
         /\ IF out = "ok"
            THEN \E r \in Responses :
                   /\ result' = r
                   /\ embedding' = NormalizeScript(r)
                   /\ Goto("script_query")
            ELSE UNCHANGED <<result, embedding>> /\ Printed
    /\ UNCHANGED Rest
    /\ UNCHANGED <<prog, args, k, vector_id, puts, document_id, results, vectors, shown>>

\* 1 - vector.get('distance', 0)
Similarity(vector) == 1 - vector.distance

Shown(vector) == [key |-> vector.key, similarity |-> Similarity(vector)]

\* search_vectors after get_embedding: the query and the printing
ScriptSearchVectors ==
    /\ prog = "search_vectors" /\ pc = "script_query"
    /\ result' = Unset
    /\ \E out \in StoreOutcomes :
         /\ Logged("query_vectors", out, k, FALSE)
         /\ IF out = "ok"
            THEN \E r \in QueryResponsesFor(k) :
                   /\ vectors' = r
                   /\ shown' = [i \in 1..Len(r) |-> Shown(r[i])]
                   /\ Return
            ELSE Printed /\ UNCHANGED <<vectors, shown>>
    /\ UNCHANGED Rest
    /\ UNCHANGED <<prog, args, embedding, k, vector_id, puts, document_id, results>>

\* str.lower()
Lower(str) == [i \in 1..Len(str) |-> IF str[i] = "G" THEN "g" ELSE str[i]]
\* sub in str
Contains(sub, str) ==
    \E i \in 0..(Len(str) - Len(sub)) : SubSeq(str, i + 1, i + Len(sub)) = sub
\* v.get('metadata', {}).get('character', '')
Character(vector) ==
    IF "character" \in DOMAIN vector.metadata THEN vector.metadata["character"] ELSE <<>>
\* a slice that is forgotten
PrefixAll(seq, n) == seq
\* seq[:n]
Prefix(seq, n) ==
    IF n >= 0 THEN SubSeq(seq, 1, IF n < Len(seq) THEN n ELSE Len(seq))
    ELSE SubSeq(seq, 1, Len(seq) + n)

\* search_by_character after get_embedding: the query, the filter, the printing
ScriptSearchByCharacter ==
    /\ prog = "search_by_character" /\ pc = "script_query"
    /\ result' = Unset
    /\ \E out \in StoreOutcomes :
         /\ Logged("query_vectors", out, CharacterTopK, FALSE)
         /\ IF out = "ok"
            THEN \E r \in QueryResponsesFor(CharacterTopK) :
                   LET character_lower == Lower(args.name)
                       Match(v) == Contains(character_lower, Lower(Character(v)))
                       exact_matches == SelectSeq(r, Match)
                       chosen == IF exact_matches # <<>>
                                 THEN Prefix(exact_matches, k)
                                 ELSE Prefix(r, k)
                   IN /\ vectors' = r
                      /\ shown' = [i \in 1..Len(chosen) |-> Shown(chosen[i])]
                      /\ Return
            ELSE Printed /\ UNCHANGED <<vectors, shown>>
    /\ UNCHANGED Rest
    /\ UNCHANGED <<prog, args, embedding, k, vector_id, puts, document_id, results>>

\* ------------------------------------ scripts/test_despicable_me_docs.py
\* ingest_document up to the return of get_embedding: metadata.get on the
\* default None raises; get_embedding makes one call and has no except clause
DocumentGetEmbedding ==
    /\ prog = "ingest_document" /\ pc = "document_embedding"
    /\ IF args.metadata.t # "map"
       THEN Raise /\ UNCHANGED <<result, embedding, log, now>>
       ELSE \E out \in InvokeOutcomes :
              /\ Logged("invoke_endpoint", out, 0, FALSE)
              /\ IF out = "ok"
                 THEN \E r \in Responses :
                        /\ result' = r
                        /\ embedding' = NormalizeDocs(r)
                        /\ Goto("document_put")
                 ELSE UNCHANGED <<result, embedding>> /\ Raise
    /\ UNCHANGED Rest
    /\ UNCHANGED <<prog, args, k, vector_id, puts, document_id, results, vectors, shown>>

\* ingest_document from uuid4 to the return: one put_vectors call, unguarded
IngestDocument ==
    /\ prog = "ingest_document" /\ pc = "document_put"
    /\ vector_id' = Uuid4
    /\ result' = Unset
    /\ \E out \in DocStoreOutcomes :
         LET sent == [key |-> Uuid4, data |-> embedding,
                      metadata |-> Merge([text |-> TextStr, timestamp |-> Stamp(now)],
                                         args.metadata.m)]
         IN /\ Logged("put_vectors", out, 0, FALSE)
            /\ puts' = Append(puts, sent)
            /\ IF out = "ok" THEN Return ELSE Raise
    /\ UNCHANGED Rest
    /\ UNCHANGED <<prog, args, embedding, k, document_id, results, vectors, shown>>

\* ------------------------------------------------------------ specification
Next ==
    \/ IngestParse
    \/ IngestGetEmbedding
    \/ IngestValidate
    \/ IngestPutVectors
    \/ FileGetEmbedding
    \/ FileGetEmbeddingExit
    \/ FilePutVector
    \/ FilePutVectorExit
    \/ ModuleLoad
    \/ DocumentGetEmbedding
    \/ IngestDocument
    \/ DocsNext
    \/ DocsValidate
    \/ SearchParse
    \/ SearchGetEmbedding
    \/ SearchValidate
    \/ SearchQueryVectors
    \/ ScriptGetEmbedding
    \/ ScriptSearchVectors
    \/ ScriptSearchByCharacter

Spec == Init /\ [][Next]_vars

\* one invocation of the ingest handler, run to completion: the Lambda host
\* runs lambda_handler on one thread and every statement that can run does
IngestInit == Init /\ prog = "ingest_handler"
IngestNext ==
    \/ IngestParse
    \/ IngestGetEmbedding
    \/ IngestValidate
    \/ IngestPutVectors
IngestSpec == IngestInit /\ [][IngestNext]_vars /\ WF_vars(IngestNext)

\* ------------------------------------------------------------ properties
CallsOf(op) == SelectSeq(log, LAMBDA e : e.op = op)

\* the operations an entry point wraps in a retry loop
RetryLoops(p) ==
    CASE p = "ingest_handler" -> {"invoke_endpoint", "put_vectors"}
      [] p = "search_handler" -> {"invoke_endpoint"}
      [] p = "file_get_embedding" -> {"invoke_endpoint"}
      [] p = "file_put_vector" -> {"put_vectors"}
      [] p = "ingest_docs" -> {"invoke_endpoint", "put_vectors"}
      [] OTHER -> {}
LoopPc(op) == IF op = "invoke_endpoint" THEN "get_embedding" ELSE "put_vectors"

\* the fault classes of the specification
TransientFaults == {"ThrottlingException"}
TerminalFaults == {"NotFoundException", "AccessDeniedException", "AccessDenied"}

RECURSIVE Pow2(_)
Pow2(i) == IF i <= 0 THEN 1 ELSE 2 * Pow2(i - 1)

\* C1: for every non-empty flat sequence E, get_embedding of the ingest
\* handler, of the search handler and of the batch ingester returns E when the
\* decoded response is [[E]], [E] or E itself.
C1_AllShapesYieldFlat ==
    prog \in {"ingest_handler", "search_handler", "file_get_embedding"} =>
        \A e \in Flat :
            (PyLen(e) > 0 /\ result \in {e, Wrap(e), Wrap(Wrap(e))}) => embedding = e

\* C2: a retried remote call that fails transiently N times and then succeeds,
\* with N+1 within the attempt budget, is called exactly N+1 times: no call
\* follows the first success, the loop does not give up while budget remains,
\* and the operation ends with the successful result.
C2_RetryUntilSuccess ==
    \A op \in RetryLoops(prog) :
        LET cs == CallsOf(op)
            n == Len(cs)
            succeeded ==
                IF op = "invoke_endpoint"
                THEN /\ embedding # Unset
                     /\ pc # "get_embedding"
                     /\ prog = "file_get_embedding" => outcome = "returned"
                ELSE CASE prog = "ingest_handler" -> outcome = "response" /\ status = 200
                       [] prog = "ingest_docs" ->
                            /\ history # <<>>
                            /\ history[Len(history)].verdict = "success"
                       [] OTHER -> outcome = "returned"
        IN /\ \A i \in 1..n : cs[i].out = "ok" => i = n
           /\ (/\ n >= 1
               /\ \A i \in 1..(n - 1) : cs[i].out \in TransientFaults
               /\ cs[n].out = "ok") => (n <= attempts /\ succeeded)
           /\ (/\ n >= 1
               /\ \A i \in 1..n : cs[i].out \in TransientFaults
               /\ n < attempts) => (pc = LoopPc(op) /\ outcome = "running")

C2_Witness ==
    /\ prog = "ingest_handler" /\ pc = "done" /\ status = 200
    /\ LET cs == CallsOf("put_vectors")
       IN Len(cs) = 3 /\ cs[1].out \in TransientFaults
          /\ cs[2].out \in TransientFaults /\ cs[3].out = "ok"

\* C3: a retried remote call that fails transiently on every attempt is made
\* exactly attempts times, and then the error is propagated: the operation
\* never returns a value.
C3_ExhaustionPropagates ==
    \A op \in RetryLoops(prog) :
        LET cs == CallsOf(op)
            n == Len(cs)
        IN (/\ n >= 1
            /\ \A i \in 1..n : cs[i].out \in TransientFaults
            /\ pc \in {"done", "doc_start"})
           => /\ n = attempts
              /\ CASE prog = "ingest_handler" ->
                        outcome = "response" /\ status = 500 /\ document_id = ""
                   [] prog = "ingest_docs" ->
                        /\ history # <<>>
                        /\ history[Len(history)].verdict = "failure"
                   [] OTHER -> outcome = "raised"
              /\ (op = "invoke_endpoint" /\ prog # "ingest_docs") => embedding = Unset

C3_Witness ==
    /\ prog = "file_put_vector" /\ pc = "done" /\ outcome = "raised"
    /\ attempts = 3
    /\ LET cs == CallsOf("put_vectors")
       IN Len(cs) = 3 /\ \A i \in 1..3 : cs[i].out \in TransientFaults

\* C4: in every retry loop the i-th sleep (i = 0, 1, ...) lasts base * 2^i; a
\* sleep comes only between a failed attempt and the next attempt of the same
\* call, never after the final attempt; there are at most attempts - 1 sleeps.
C4_Backoff ==
    /\ \A j \in 1..Len(log) :
          log[j].op = "sleep" =>
             /\ j > 1
             /\ log[j - 1].op \in RetryLoops(prog)
             /\ log[j - 1].out # "ok"
             /\ j < Len(log) => log[j + 1].op = log[j - 1].op
             /\ j = Len(log) => (pc = LoopPc(log[j - 1].op) /\ outcome = "running")
    /\ \A op \in RetryLoops(prog) :
          LET idx == {j \in 2..Len(log) : log[j].op = "sleep" /\ log[j - 1].op = op}
              base == IF prog \in FileCalls THEN args.delay ELSE 1
          IN /\ \A j \in idx :
                   log[j].n = base * Pow2(Cardinality({j2 \in idx : j2 < j}))
             /\ idx # {} => Cardinality(idx) <= attempts - 1

C4_Witness ==
    /\ prog = "file_put_vector" /\ args.delay = 2 /\ pc = "done"
    /\ SelectSeq(log, LAMBDA e : e.op = "sleep") = <<Sleep(2), Sleep(4)>>

\* C5: in every upsert path a put_vectors attempt that fails with a not-found
\* or an access-denied fault is the last thing the path does for the
\* document: no sleep and no further put_vectors attempt follows it.
C5_TerminalFaultNotRetried ==
    prog \in {"ingest_handler", "file_put_vector"} =>
        \A i \in 1..Len(log) :
            (log[i].op = "put_vectors" /\ log[i].out \in TerminalFaults) => i = Len(log)

\* C6: the status code of the ingest handler is determined by the outcome
\* class: 400 for a missing or empty text, 404 / 403 for a not-found /
\* access-denied put_vectors, 200 with the document_id only after a successful
\* put_vectors, 500 for an invalid embedding and for every other fault.
C6_IngestStatus ==
    (prog = "ingest_handler" /\ pc = "done") =>
        LET inv == CallsOf("invoke_endpoint")
            put == CallsOf("put_vectors")
            lastPut == IF put = <<>> THEN "none" ELSE put[Len(put)].out
            missing == ~ParseRaises(args) /\ args.text \in {"absent", "none", "empty"}
            invalid == /\ inv # <<>>
                       /\ inv[Len(inv)].out = "ok"
                       /\ ~(embedding.t = "list" /\ Len(embedding.items) > 0)
        IN /\ outcome = "response"
           /\ status = CASE missing -> 400
                         [] lastPut = "NotFoundException" -> 404
                         [] lastPut \in {"AccessDeniedException", "AccessDenied"} -> 403
                         [] lastPut = "ok" -> 200
                         [] OTHER -> 500
           /\ invalid => status = 500
           /\ status = 200 => (document_id = vector_id /\ vector_id # "")
           /\ status # 200 => document_id = ""

C6_Witness ==
    /\ prog = "ingest_handler" /\ pc = "done" /\ status = 403
    /\ LET put == CallsOf("put_vectors")
       IN Len(put) = 2 /\ put[1].out = "ThrottlingException" /\ put[2].out = "AccessDenied"

\* C7: the search handler turns every failure into a response: whatever the
\* request, the embedding call and the store query do, lambda_handler returns
\* a dict with statusCode in {200, 400, 403, 404, 500}; no exception escapes.
C7_SearchAlwaysResponds ==
    (prog = "search_handler" /\ pc = "done") =>
        (outcome = "response" /\ status \in {200, 400, 403, 404, 500})

\* C8: for every value of the request field k, the topK the search handler
\* passes to query_vectors is an integer in 1..50, and 5 when k is absent.
C8_TopKInRange ==
    prog = "search_handler" =>
        \A i \in 1..Len(log) :
            log[i].op = "query_vectors" =>
                /\ log[i].n \in 1..50
                /\ args.k.t = "absent" => log[i].n = 5

C8_Witness ==
    /\ prog = "search_handler" /\ args.k = KStr(<<"7", "7">>)
    /\ \E i \in 1..Len(log) : log[i].op = "query_vectors" /\ log[i].n = 50

\* C9 as stated: every k that is non-numeric, <= 0 or > 50 reaches
\* query_vectors as topK = 5.
C9_OutOfRangeIsDefault ==
    prog = "search_handler" =>
        \A i \in 1..Len(log) :
            log[i].op = "query_vectors" =>
                LET r == IntOf(BodyK(args.k))
                IN (~r.ok \/ r.v <= 0 \/ r.v > 50) => log[i].n = 5

\* C9 amended: every k that is non-numeric or <= 0 reaches query_vectors as
\* topK = 5, and every k > 50 reaches it as topK = 50.
C9_DefaultOrClamp ==
    prog = "search_handler" =>
        \A i \in 1..Len(log) :
            log[i].op = "query_vectors" =>
                LET r == IntOf(BodyK(args.k))
                IN /\ (~r.ok \/ r.v <= 0) => log[i].n = 5
                   /\ (r.ok /\ r.v > 50) => log[i].n = 50

C9_Witness ==
    /\ prog = "search_handler" /\ args.k = KInt(51)
    /\ pc = "done" /\ status = 200
    /\ \E i \in 1..Len(log) : log[i].op = "query_vectors" /\ log[i].n = 50

\* C10: for every record the store returns with distance d, the score of the
\* search handler's result and the similarity shown by search_vectors and by
\* search_by_character are 1 - d.
C10_SimilarityIsOneMinusDistance ==
    /\ prog = "search_handler" =>
          \A i \in 1..Len(results) : results[i].score = 1 - vectors[i].distance
    /\ prog = "search_vectors" =>
          \A i \in 1..Len(shown) : shown[i].similarity = 1 - vectors[i].distance
    /\ prog = "search_by_character" =>
          \A i \in 1..Len(shown) :
             \E j \in 1..Len(vectors) :
                /\ vectors[j].key = shown[i].key
                /\ shown[i].similarity = 1 - vectors[j].distance

C12_MetadataMerged ==
    LET Times == {Stamp(t) : t \in 0..now}
        Keeps(sent, m) ==
            /\ \A x \in DOMAIN m : x \in DOMAIN sent /\ sent[x] = m[x]
            /\ "timestamp" \in DOMAIN sent /\ sent["timestamp"] \in Times
    IN /\ prog = "ingest_handler" =>
            \A j \in 1..Len(puts) :
                /\ Keeps(puts[j].metadata, BodyMetadata(args.metadata).m)
                /\ "text" \in DOMAIN puts[j].metadata
                /\ puts[j].metadata["text"] = TextStr
       /\ prog = "ingest_docs" =>
            \A j \in 1..Len(puts) :
                \E n \in 1..Len(args.docs) :
                    /\ puts[j].key = DocUuid(n)
                    /\ Keeps(puts[j].metadata, BodyMetadata(args.docs[n].metadata).m)

\* C13: when SAGEMAKER_ENDPOINT, VECTOR_BUCKET or INDEX_NAME is unset, the
\* import of a request-handler module raises, so the module is never loaded.
C13_UnsetIdentifierFailsLoad ==
    (prog \in Modules /\ pc = "done"
        /\ \E x \in {"SAGEMAKER_ENDPOINT", "VECTOR_BUCKET", "INDEX_NAME"} :
              args.env[x] = "unset")
    => outcome = "raised"

\* C14: in the ingest handler, the search handler and the batch ingester, no
\* put_vectors / query_vectors call is made with an embedding that is not a
\* non-empty list: when get_embedding returned None, a non-list or an empty
\* list, the item ends as an error (status 500, a counted failure in the
\* batch) without a store call.
C14_NoStoreCallWithInvalidEmbedding ==
    LET NonEmptyList(e) == e.t = "list" /\ Len(e.items) > 0
        store == {j \in 1..Len(log) : log[j].op \in {"put_vectors", "query_vectors"}}
        inv == CallsOf("invoke_endpoint")
        returned == inv # <<>> /\ inv[Len(inv)].out = "ok" /\ pc # "get_embedding"
    IN /\ prog \in {"ingest_handler", "search_handler", "ingest_docs"} =>
            /\ \A j \in 1..Len(puts) : NonEmptyList(puts[j].data)
            /\ store # {} => NonEmptyList(embedding)
            /\ (returned /\ ~NonEmptyList(embedding)) => store = {}
       /\ (/\ prog \in {"ingest_handler", "search_handler"}
           /\ returned /\ ~NonEmptyList(embedding) /\ pc = "done")
                => (outcome = "response" /\ status = 500)
       /\ (/\ prog = "ingest_docs"
           /\ returned /\ ~NonEmptyList(embedding) /\ pc \in {"doc_start", "done"})
                => /\ history # <<>>
                   /\ history[Len(history)].verdict = "failure"
                   /\ history[Len(history)].puts = 0
                   /\ failures >= 1

C14_Witness ==
    /\ prog = "ingest_docs" /\ pc = "done" /\ Len(args.docs) = 2
    /\ embedding = List(<<>>) /\ log = <<Call("invoke_endpoint", "ok", 0)>>
    /\ history[2].verdict = "failure" /\ history[1].lastPut = "ok"

\* C15: in the search handler a query_vectors call that fails with a fault
\* other than not-found or access-denied is retried like the upsert: when every
\* attempt fails that way the handler ends after 3 query_vectors calls with
\* sleeps of 1 and 2 between them, and a first failure is never the end.
C15_QueryRetried ==
    (prog = "search_handler" /\ pc = "done") =>
        LET first == {j \in 1..Len(log) : log[j].op = "query_vectors"}
            q == CallsOf("query_vectors")
        IN (q # <<>> /\ \A i \in 1..Len(q) : q[i].out \in TransientFaults) =>
              /\ Len(q) = 3
              /\ \E j \in first :
                    SelectSeq(SubSeq(log, j, Len(log)), LAMBDA e : e.op = "sleep")
                        = <<Sleep(1), Sleep(2)>>

\* C16: on a 200 response of the search handler, results has one entry per
\* record the store returned, in the store's order, each entry's id and
\* metadata are that record's key and metadata, and count is the number of
\* records returned.
C16_ResultsMirrorStore ==
    (prog = "search_handler" /\ pc = "done" /\ status = 200) =>
        /\ Len(results) = Len(vectors)
        /\ \A i \in 1..Len(vectors) :
              /\ results[i].id = vectors[i].key
              /\ results[i].metadata = vectors[i].metadata
        /\ count = Len(vectors)

C16_Witness ==
    /\ prog = "search_handler" /\ pc = "done" /\ status = 200
    /\ count = 2 /\ Len(results) = 2
    /\ vectors[1].distance = 2 /\ vectors[2].distance = 0
    /\ results[1].id = "v4" /\ results[2].id = "v3"

\* C17: in get_embedding a fault that is not a ClientError is never retried,
\* on whichever attempt it happens: the faulting invocation is the last one,
\* no sleep follows it, and the fault leaves get_embedding (the caller's
\* handler, if it has one, sees it).
C17_OtherFaultNotRetried ==
    prog \in {"ingest_handler", "search_handler", "file_get_embedding", "ingest_docs"} =>
        \A j \in 1..Len(log) :
            (log[j].op = "invoke_endpoint" /\ log[j].out = "Exception") =>
                /\ j = Len(log)
                /\ pc \in {"done", "doc_start"}
                /\ CASE prog = "ingest_handler" -> outcome = "response" /\ status = 500
                     [] prog = "ingest_docs" ->
                          /\ history # <<>>
                          /\ history[Len(history)].embed = "raised"
                          /\ history[Len(history)].verdict = "failure"
                     [] OTHER -> outcome = "raised"

C17_Witness ==
    /\ prog = "search_handler" /\ pc = "done" /\ outcome = "raised"
    /\ log = <<Call("invoke_endpoint", "ThrottlingException", 0), Sleep(1),
               Call("invoke_endpoint", "Exception", 0)>>

\* C18: when the body is readable and the required field (text for ingest,
\* query for search) is missing, null or empty, the handler answers 400 and
\* makes no remote call, neither invoke_endpoint nor a store call, and k is
\* not validated before that answer, whatever k the request carries.
C18_MissingFieldNoRemoteCall ==
    (/\ prog \in {"ingest_handler", "search_handler"}
     /\ args.kind \in {"str", "direct"} /\ args.isMap
     /\ args.text \in {"absent", "none", "empty"}) =>
        /\ log = <<>> /\ puts = <<>>
        /\ k = 0
        /\ pc \in {"start", "done"}
        /\ pc = "done" => (outcome = "response" /\ status = 400)

C18_Witness ==
    /\ prog = "search_handler" /\ pc = "done" /\ status = 400
    /\ args.text = "empty" /\ args.k = KInt(51) /\ log = <<>>

\* C19: the five get_embedding implementations return the same value for the
\* same decoded response, whatever its shape, and an empty or non-list
\* response is returned unchanged.
C19_SameNormalization ==
    result # Unset =>
        LET values == {NormalizeIngest(result), NormalizeSearch(result),
                       NormalizeFile(result), NormalizeScript(result),
                       NormalizeDocs(result)}
        IN /\ values = {embedding}
           /\ (result.t # "list" \/ Len(result.items) = 0) => embedding = result

\* C20: every invocation of the ingest handler ends with a returned response,
\* never with an exception, whatever the event and the remote calls do, and
\* makes at most 3 invoke_endpoint calls, 3 put_vectors calls and 4 sleeps.
C20_IngestTerminates ==
    /\ [](/\ Len(CallsOf("invoke_endpoint")) <= 3
          /\ Len(CallsOf("put_vectors")) <= 3
          /\ Len(CallsOf("sleep")) <= 4
          /\ outcome # "raised"
          /\ pc = "done" => outcome = "response")
    /\ <>(pc = "done" /\ outcome = "response")

C20_Witness ==
    /\ prog = "ingest_handler" /\ pc = "done" /\ outcome = "response"
    /\ Len(CallsOf("invoke_endpoint")) = 3
    /\ Len(CallsOf("put_vectors")) = 3
    /\ Len(CallsOf("sleep")) = 4

\* C21: all put_vectors attempts made for one document carry the same key and
\* the same embedding, the embedding get_embedding returned; the key exists
\* only once the embedding has validated; the document_id of the ingest
\* handler's 200 response is that key; so the attempts for one document
\* address at most one record.
C21_OneKeyPerDocument ==
    prog \in {"ingest_handler", "file_put_vector", "ingest_docs"} =>
        /\ \A i, j \in 1..Len(puts) :
              puts[i].key = puts[j].key /\ puts[i].data = puts[j].data
        /\ \A j \in 1..Len(puts) :
              /\ puts[j].key # ""
              /\ puts[j].data = embedding
              /\ prog = "ingest_docs" =>
                    puts[j].key \in {"uuid-" \o ToString(n) : n \in 1..Len(args.docs)}
        /\ Cardinality({puts[j].key : j \in 1..Len(puts)}) <= 1
        /\ Len(puts) = Len(CallsOf("put_vectors"))
        /\ (prog = "ingest_handler" /\ vector_id # "") =>
              /\ embedding.t = "list" /\ Len(embedding.items) > 0
              /\ pc \in {"put_vectors", "done"}
        /\ (prog = "ingest_handler" /\ status = 200) =>
              (puts # <<>> /\ document_id = puts[Len(puts)].key)

C21_Witness ==
    /\ prog = "ingest_handler" /\ pc = "done" /\ status = 200
    /\ Len(puts) = 3 /\ document_id = "uuid-1"
    /\ puts[1].key = "uuid-1" /\ puts[3].key = "uuid-1"

\* C22: search_by_character(name, k), k >= 0, makes one query_vectors call,
\* with topK = 10, and shows at most k records in store order: the first k of
\* the returned records whose metadata 'character' contains name, ignoring
\* case, when there is one, and otherwise the first k of all returned records.
C22_CharacterFilterWithFallback ==
    (prog = "search_by_character" /\ pc = "done") =>
        LET q == CallsOf("query_vectors")
            Match(v) == Contains(Lower(args.name), Lower(Character(v)))
            matching == SelectSeq(vectors, Match)
            base == IF matching # <<>> THEN matching ELSE vectors
            n == IF args.topk < Len(base) THEN args.topk ELSE Len(base)
        IN /\ Len(q) <= 1
           /\ \A j \in 1..Len(q) : q[j].n = 10
           /\ outcome = "returned" =>
                 /\ Len(q) = 1 /\ q[1].out = "ok"
                 /\ Len(shown) = n
                 /\ \A j \in 1..n : shown[j].key = base[j].key

C22_Witness ==
    /\ prog = "search_by_character" /\ pc = "done" /\ outcome = "returned"
    /\ args.name = <<"G">> /\ args.topk = 1
    /\ Len(vectors) = 2 /\ vectors[1].key = "v2" /\ vectors[2].key = "v3"
    /\ Len(shown) = 1 /\ shown[1].key = "v3"

\* C23: for every value of attempts, zero and negative included, put_vector of
\* the batch ingester returns normally only after a put_vectors call succeeded
\* and its get_embedding returns only after an invoke_endpoint call succeeded.
C23_SuccessNeedsRemoteSuccess ==
    (prog \in {"file_get_embedding", "file_put_vector"}
        /\ pc = "done" /\ outcome = "returned") =>
        LET cs == CallsOf(IF prog = "file_put_vector" THEN "put_vectors"
                          ELSE "invoke_endpoint")
        IN cs # <<>> /\ cs[Len(cs)].out = "ok"

\* C24: ingestion never changes the metadata object the caller holds: at
\* every moment of ingest_docs and of the ingest handler, so also after a
\* document succeeded or failed and after the handler returned, each caller
\* map has exactly the entries it was given with; the map sent to put_vectors
\* is another map, the merge that carries the timestamp.
C24_CallerMetadataUntouched ==
    /\ prog = "ingest_handler" => caller = <<args.metadata>>
    /\ prog = "ingest_docs" =>
          /\ Len(caller) = Len(args.docs)
          /\ \A n \in 1..Len(args.docs) : caller[n] = args.docs[n].metadata
    /\ prog \in {"ingest_handler", "ingest_docs"} =>
          \A j \in 1..Len(puts) : "timestamp" \in DOMAIN puts[j].metadata

C24_Witness ==
    /\ prog = "ingest_docs" /\ pc = "done" /\ Len(args.docs) = 2
    /\ history[1].verdict = "failure" /\ history[1].lastPut = "ThrottlingException"
    /\ history[2].verdict = "success"
    /\ caller[1] = [t |-> "map", m |-> [x \in {"source"} |-> CallerStr]]
    /\ "timestamp" \notin DOMAIN caller[2].m
    /\ puts # <<>> /\ "timestamp" \in DOMAIN puts[1].metadata

\* C25: in one invocation of the ingest handler no put_vectors call is made
\* before an invoke_endpoint call has returned successfully, no
\* invoke_endpoint call is made after the first put_vectors call, and the
\* response is 200 exactly when the last remote call made was a put_vectors
\* call that succeeded.
C25_EmbedThenStore ==
    prog = "ingest_handler" =>
        LET remote == {j \in 1..Len(log) : log[j].op # "sleep"}
            IsLast(j) == j \in remote /\ \A i \in remote : i <= j
            storedLast == \E j \in remote :
                             /\ IsLast(j)
                             /\ log[j].op = "put_vectors" /\ log[j].out = "ok"
        IN /\ \A j \in remote :
                 log[j].op = "put_vectors" =>
                    \E i \in 1..(j - 1) :
                       log[i].op = "invoke_endpoint" /\ log[i].out = "ok"
           /\ \A j \in remote :
                 log[j].op = "invoke_endpoint" =>
                    \A i \in 1..(j - 1) : log[i].op # "put_vectors"
           /\ \A j \in remote : log[j].op \in {"invoke_endpoint", "put_vectors"}
           /\ pc = "done" => (status = 200 <=> storedLast)
           /\ storedLast => (pc = "done" /\ status = 200)

C25_Witness ==
    /\ prog = "ingest_handler" /\ pc = "done" /\ status = 200
    /\ log = <<Call("invoke_endpoint", "ThrottlingException", 0), Sleep(1),
               Call("invoke_endpoint", "ok", 0),
               Call("put_vectors", "ThrottlingException", 0), Sleep(1),
               Call("put_vectors", "ok", 0)>>

====
